---- MODULE Spec2Model ----
(***************************************************************************)
(* A model of src/digfoot.py: DigitalFootprintScanner.run_scan with its    *)
(* four stages, the report (self.results), the progress accumulator        *)
(* (self.progress), the persistence of the report (_save_results) and the  *)
(* release of the browser driver.                                          *)
(*                                                                         *)
(* One scan is a sequential process whose position is pc.  A position is   *)
(* a place where the scan waits for the outside world (a transport call,   *)
(* the write of the report) or a loop head or stage boundary.  The outside *)
(* world answers every transport call nondeterministically, and in command *)
(* line mode it may deliver KeyboardInterrupt at any position.             *)
(***************************************************************************)
EXTENDS Integers, Sequences, FiniteSets, TLC

---------------------------------------------------------------------------
(* Bounds of the model *)

\* lookups, platforms and result pages that answer one scan with a finding
MaxOk == 1
\* interrupt signals delivered to one scan
MaxInterrupts == 1
\* records in the breach collaborator's answer
MaxBreaches == 2
\* qualifying links on one search result page
MaxLinks == 4
\* items on one deep-scan page (tweets, events, comments)
MaxItems == 11
\* length of the username variant list
NumVariants == 4
\* threads calling _update_progress concurrently
NumThreads == 2
\* calls of _update_progress made by each thread
MaxCalls == 2
\* length of the string given as the email
MaxEmailLen == 4
\* runs of the program on the same input
MaxRuns == 2
\* times Start Scan is pressed in one GUI session
MaxScans == 3

---------------------------------------------------------------------------
(* Program constants *)

\* self.username_variations[:3]
ProbeWindow == 3
\* links[:3]
LinksPerQuery == 3
\* the six entries of queries
NumQueries == 6
\* tweets[:5], comments[:5]
SampleSize == 5
\* events[:10]
EventWindow == 10
\* progress['total']
ProgressTotal == 100

\* platforms, in the insertion order of the dict
Platforms == <<"Twitter", "GitHub", "Reddit", "Instagram", "LinkedIn", "Facebook">>

\* engines, in the insertion order of the dict
Engines == <<"Google", "Bing", "DuckDuckGo">>

VARIABLES
    \* ---- the scanner object
    gui_mode,             \* self.gui_mode
    deep_scan,            \* self.deep_scan
    driver,               \* TRUE iff self.driver is a browser driver (not None)
    net_down,             \* the outside world: every transport call fails
    username_variations,  \* self.username_variations, a list
    results,              \* self.results
    progress,             \* self.progress
    \* ---- the position of run_scan and the locals of the frames on its stack
    pc,                   \* position of the scan
    ctx,                  \* "try" | "handler": where _save_results was called from
    platform,             \* check_social_media: index of the platform in the loop
    variant,              \* check_social_media: index of the variant in the loop
    found,                \* local found of the running stage
    engine,               \* search_public_mentions: index of the engine
    query,                \* search_public_mentions: index of the query
    engine_results,       \* search_public_mentions: local list
    domain_info,          \* analyze_domain: local dict
    breach_count,         \* run_scan locals: the values the stages returned
    social_media_count,
    mentions_count,
    outcome,              \* "none" | "returned" | "raised": how run_scan ended
    \* ---- the outside world
    okLeft,               \* findings the transport may still answer with
    intrLeft,             \* interrupts that may still be delivered
    \* ---- observations (history)
    statusLog,            \* the values assigned to results['status'], in order
    fileLog,              \* the documents written to the results file, in order
    quitCount,            \* calls of driver.quit()
    smWrites,             \* assignments to social_media[p], per platform
    matched,              \* platforms whose check function returned True
    stages,               \* stages that have been started
    intr,                 \* the first interrupt delivered, and the state it met
    saveFailed,           \* some call of _save_results raised
    lookup,               \* what the breach lookup answered
    probeLog,             \* the calls of check_func made, in order
    anomaly,              \* a parse of fetched content has raised
    outFile,              \* the documents main wrote to args.output
    fetchLog,             \* the result pages with links search_public_mentions fetched
    \* ---- the input and the entry points (main, start_scan)
    raw,                  \* the string the user gave as the email
    entry,                \* "cli" | "gui": the entry point used
    email,                \* self.email
    domain,               \* self.domain
    base_username,        \* self.base_username
    phase,                \* "input" | "rejected" | "scanning"
    runs,                 \* the variant lists of the runs made on this input
    \* ---- the GUI: self.scanner and the worker threads of start_scan
    scanner,              \* DigitalFootprintGUI.scanner: 0 (None) or a scanner
    workers,              \* the threads started, with the scanner each one runs
    drivers,              \* per scanner constructed: its driver and its quits
    exited,               \* the main loop has ended and the process is gone
    \* ---- threads calling _update_progress concurrently
    tpc,                  \* position of each thread in _update_progress
    tlocal,               \* the value each thread read from progress['current']
    tcalls,               \* the increments each thread has still to pass
    held,                 \* the lock objects that are held
    sumInc                \* sum of the increments of the calls that returned

cfgVars == <<gui_mode, deep_scan, driver, net_down, username_variations>>
localVars == <<platform, variant, found, engine, query, engine_results, domain_info>>
countVars == <<breach_count, social_media_count, mentions_count>>
threadVars == <<tpc, tlocal, tcalls, held, sumInc>>
obsVars == <<lookup, probeLog, anomaly, outFile, fetchLog>>
inputVars == <<raw, entry, email, domain, base_username, phase, runs>>
guiVars == <<scanner, workers, drivers, exited>>
vars == <<gui_mode, deep_scan, driver, net_down, username_variations, results, progress,
          pc, ctx, platform, variant, found, engine, query, engine_results,
          domain_info, breach_count, social_media_count, mentions_count, outcome,
          okLeft, intrLeft, statusLog, fileLog, quitCount, smWrites, matched,
          stages, intr, saveFailed,
          tpc, tlocal, tcalls, held, sumInc,
          lookup, probeLog, anomaly, outFile, fetchLog,
          raw, entry, email, domain, base_username, phase, runs,
          scanner, workers, drivers, exited>>

---------------------------------------------------------------------------
(* Values *)

Min(a, b) == IF a < b THEN a ELSE b

\* the empty dict
EmptyDict == [k \in {} |-> 0]

\* d[k] = v on a dict
Put(d, k, v) == [q \in DOMAIN d \cup {k} |-> IF q = k THEN v ELSE d[q]]

\* l[:n] on a list
Take(l, n) == SubSeq(l, 1, Min(n, Len(l)))

\* the list <<1, ..., n>>: n distinct items
Items(n) == [i \in 1..n |-> i]

\* no task name (None)
NoTask == <<>>

\* a JSON document: a list of items, an object, or a scalar
JsonList(n) == [kind |-> "list", items |-> Items(n)]

\* what the network does with one request: no answer (exception, timeout),
\* or a response with a status code and a body; marker: the body holds the
\* platform's not-found element or message; parse_ok: the body parses
NetFail == [kind |-> "fail", code |-> 0, marker |-> FALSE, parse_ok |-> TRUE]

NetOutcomes ==
    {NetFail}
    \cup [kind : {"resp"}, code : {200, 404, 999}, marker : BOOLEAN, parse_ok : BOOLEAN]

\* None, as returned by _safe_request
NoResponse == [kind |-> "none", code |-> 0, marker |-> FALSE, parse_ok |-> TRUE]

\* the truth value of a response object or None
Truthy(resp) == resp.kind # "none"

\* what the network may do with the next request
Net == IF net_down THEN {NetFail} ELSE NetOutcomes

---------------------------------------------------------------------------
(* self.results and self.progress after __init__ *)

InitResults ==
    [email |-> "email",
     scan_date |-> "scan_date",
     status |-> "running",
     findings |-> [breaches |-> JsonList(0),
                   social_media |-> EmptyDict,
                   public_mentions |-> EmptyDict,
                   comments_mentions |-> EmptyDict,
                   domain_info |-> EmptyDict]]

InitProgress == [current |-> 0, total |-> ProgressTotal, active_task |-> NoTask]

\* _update_progress run by one thread alone: the task label is replaced when
\* one is given, the increment is added; the display is throttled and
\* changes no state of the scan
_update_progress(prog, task_name, increment) ==
    [prog EXCEPT !.active_task = IF task_name # NoTask THEN task_name ELSE @,
                 !.current = IF increment # 0 THEN @ + increment ELSE @]

\* _safe_request: a failed request is caught and None is returned
_safe_request(net) ==
    [raised |-> FALSE,
     response |-> IF net.kind = "fail" THEN NoResponse ELSE net]

---------------------------------------------------------------------------
(* The platform checks.  Each takes what the transport did with the request
   and gives "yes" (the profile exists: the entry is recorded and True is
   returned), "no" (False is returned) or "raise" (an Exception leaves the
   check function). *)

\* a plain fetch through _safe_request, then the test `response and
\* response.status_code in codes`
Fetched(net, codes) ==
    LET r == _safe_request(net)
    IN  IF r.raised THEN "raise"
        ELSE IF Truthy(r.response) /\ r.response.code \in codes THEN "yes"
        ELSE "no"

\* BeautifulSoup(response.text) and the search for the not-found element
Parsed(net) ==
    IF ~net.parse_ok THEN "raise"
    ELSE IF ~net.marker THEN "yes"
    ELSE "no"

\* with a driver: driver.get and the page source inside try / bare except;
\* without one: a plain fetch and status 200
_check_twitter(hasDriver, net) ==
    IF hasDriver
    THEN IF net.kind # "fail" /\ ~net.marker THEN "yes" ELSE "no"
    ELSE Fetched(net, {200})

_check_github(net) == Fetched(net, {200})

_check_reddit(net) ==
    IF Fetched(net, {200}) = "yes" THEN Parsed(net) ELSE Fetched(net, {200})

\* only with a driver; without one the function returns False at once
_check_instagram(hasDriver, net) ==
    IF hasDriver
    THEN IF net.kind # "fail" /\ ~net.marker THEN "yes" ELSE "no"
    ELSE "no"

\* LinkedIn answers scrapers with 999
_check_linkedin(net) ==
    IF Fetched(net, {200, 999}) = "yes" THEN Parsed(net) ELSE Fetched(net, {200, 999})

_check_facebook(net) ==
    IF Fetched(net, {200}) = "yes" THEN Parsed(net) ELSE Fetched(net, {200})

\* the dispatch table of check_social_media
check_func(p, hasDriver, net) ==
    CASE p = "Twitter"   -> _check_twitter(hasDriver, net)
      [] p = "GitHub"    -> _check_github(net)
      [] p = "Reddit"    -> _check_reddit(net)
      [] p = "Instagram" -> _check_instagram(hasDriver, net)
      [] p = "LinkedIn"  -> _check_linkedin(net)
      [] p = "Facebook"  -> _check_facebook(net)

\* the check of platform p issues a transport call
UsesTransport(p, hasDriver) == ~(p = "Instagram" /\ ~hasDriver)

\* the transport call of the check of p is inside try / bare except
InBareExcept(p, hasDriver) == hasDriver /\ p \in {"Twitter", "Instagram"}

\* the check of p calls a deep-scan function after recording the profile
HasDeepScan(p, hasDriver) ==
    \/ p = "Twitter" /\ hasDriver
    \/ p \in {"GitHub", "Reddit"}

\* the entry a check function records
Entry(p, username) == [url |-> <<p, username>>, username |-> username]

\* the loop over username_variations[:3] after one call of check_func:
\* inc is added to found; next is the index of the variant probed next, or 0
\* when the loop over the variants is left
LoopAfterCheck(ok, v, n) ==
    IF ok THEN [inc |-> 1, next |-> 0]
    ELSE [inc |-> 0, next |-> IF v < Min(ProbeWindow, n) THEN v + 1 ELSE 0]

---------------------------------------------------------------------------
(* Deep scan.  Each function takes comments_mentions and what the transport
   did, and gives the new comments_mentions; every failure is swallowed. *)

\* what a deep-scan page holds: n items; relevant: the events are of the
\* types PushEvent or IssueCommentEvent
DeepFail == [kind |-> "fail", n |-> 0, relevant |-> FALSE]

\* the numbers of items on a deep-scan page that are tried
ItemCounts == {0, 1, MaxItems}

DeepOutcomes ==
    {DeepFail} \cup [kind : {"ok"}, n : ItemCounts, relevant : BOOLEAN]

_scan_twitter_comments(cm, o) ==
    LET tweets == IF o.kind = "ok" THEN Items(o.n) ELSE <<>>
    IN  IF tweets # <<>>
        THEN Put(cm, "Twitter", [count |-> Len(tweets), sample |-> Take(tweets, SampleSize)])
        ELSE cm

_scan_github_activity(cm, o) ==
    LET events == IF o.kind = "ok" THEN Items(o.n) ELSE <<>>
        activity == IF o.relevant THEN Take(events, EventWindow) ELSE <<>>
    IN  IF activity # <<>>
        THEN Put(cm, "GitHub", [activity_count |-> Len(activity), recent_activity |-> activity])
        ELSE cm

_scan_reddit_comments(cm, o) ==
    LET comments == IF o.kind = "ok" THEN Items(o.n) ELSE <<>>
    IN  IF comments # <<>>
        THEN Put(cm, "Reddit", [comment_count |-> Len(comments),
                                sample_comments |-> Take(comments, SampleSize)])
        ELSE cm

deep_func(p, cm, o) ==
    CASE p = "Twitter" -> _scan_twitter_comments(cm, o)
      [] p = "GitHub"  -> _scan_github_activity(cm, o)
      [] p = "Reddit"  -> _scan_reddit_comments(cm, o)

---------------------------------------------------------------------------
(* The initial state: a scanner after __init__ *)

Variants == 1..NumVariants

\* list(set): the order of the variant list is the iteration order of a set;
\* two of the orders are tried
Orderings ==
    {[i \in 1..NumVariants |-> ((i + k - 1) % NumVariants) + 1] : k \in {0, 1}}

Threads == 1..NumThreads

NoInterrupt == [seen |-> FALSE, at |-> "none", stages |-> {}, findings |-> InitResults.findings]

InitScanner ==
    /\ results = InitResults
    /\ progress = InitProgress
    /\ pc = "created"
    /\ ctx = "try"
    /\ platform = 0 /\ variant = 0 /\ found = 0
    /\ engine = 0 /\ query = 0 /\ engine_results = <<>>
    /\ domain_info = EmptyDict
    /\ breach_count = 0 /\ social_media_count = 0 /\ mentions_count = 0
    /\ outcome = "none"
    /\ okLeft = MaxOk
    /\ intrLeft = MaxInterrupts
    /\ statusLog = <<>>
    /\ fileLog = <<>>
    /\ quitCount = 0
    /\ smWrites = [p \in {Platforms[i] : i \in DOMAIN Platforms} |-> 0]
    /\ matched = {}
    /\ stages = {}
    /\ intr = NoInterrupt
    /\ saveFailed = FALSE
    /\ lookup = [answer |-> "none", n |-> 0]
    /\ probeLog = <<>>
    /\ anomaly = FALSE
    /\ outFile = <<>>
    /\ fetchLog = <<>>

\* no input is being read: the scanner exists already
NoInput ==
    /\ raw = <<>>
    /\ entry = "cli"
    /\ email = <<>>
    /\ domain = <<>>
    /\ base_username = <<>>
    /\ phase = "scanning"
    /\ runs = <<>>

\* no GUI window
NoGui ==
    /\ scanner = 0
    /\ workers = <<>>
    /\ drivers = <<>>
    /\ exited = FALSE

IdleThreads ==
    /\ tpc = [t \in Threads |-> "idle"]
    /\ tlocal = [t \in Threads |-> 0]
    /\ tcalls = [t \in Threads |-> <<>>]
    /\ held = {}
    /\ sumInc = 0

Init ==
    /\ gui_mode \in BOOLEAN
    /\ deep_scan \in BOOLEAN
    /\ driver \in BOOLEAN
    /\ net_down \in BOOLEAN
    /\ username_variations \in Orderings
    /\ InitScanner
    /\ IdleThreads
    /\ NoInput
    /\ NoGui

---------------------------------------------------------------------------
(* run_scan *)

\* the frames of the stage functions are left: their locals are gone
ResetLocals ==
    /\ platform' = 0 /\ variant' = 0 /\ found' = 0
    /\ engine' = 0 /\ query' = 0 /\ engine_results' = <<>>
    /\ domain_info' = EmptyDict

\* an exception propagates out of the stages to the handlers of run_scan
RaiseTo(handler) ==
    /\ pc' = handler
    /\ ResetLocals

\* run_scan is entered; check_breaches starts and waits for the lookup
RunScan ==
    /\ pc = "created"
    /\ pc' = "breaches"
    /\ stages' = stages \cup {"breaches"}
    /\ progress' = _update_progress(progress, <<"Checking data breaches">>, 5)
    /\ UNCHANGED <<cfgVars, results, ctx, localVars, countVars, outcome, okLeft, intrLeft,
                   statusLog, fileLog, quitCount, smWrites, matched, intr,
                   saveFailed, threadVars, obsVars,
                   inputVars, guiVars>>

\* the bodies of the breach lookup's answers
BreachBodies ==
    {[kind |-> "list", n |-> k] : k \in 0..MaxBreaches}
    \cup {[kind |-> "object", n |-> 1], [kind |-> "scalar", n |-> 0], [kind |-> "invalid", n |-> 0]}

\* response.json() of a body
Json(body) ==
    IF body.kind = "list" THEN JsonList(body.n)
    ELSE [kind |-> body.kind, items |-> Items(body.n)]

\* a check_breaches that does not test the status code of the response
check_breaches_any_status(old, resp, body) ==
    IF Truthy(resp)
    THEN IF body.kind = "invalid"
         THEN [breaches |-> old, task |-> <<"Breach check failed">>, inc |-> 15, ret |-> 0]
         ELSE IF body.kind = "scalar"
         THEN [breaches |-> Json(body), task |-> <<"Breach check failed">>, inc |-> 30, ret |-> 0]
         ELSE [breaches |-> Json(body), task |-> <<"Breaches found">>, inc |-> 15,
               ret |-> Len(Json(body).items)]
    ELSE [breaches |-> old, task |-> <<"No breaches found">>, inc |-> 15, ret |-> 0]

\* check_breaches: the value stored in findings.breaches, the last task
\* label, the progress added after the lookup and the value returned, given
\* the response and its body.  A body that is no JSON raises in the first
\* response.json(); a scalar is stored, "Breaches found" is announced, and
\* len() raises, so that the handler adds its 15 as well
check_breaches(old, resp, body) ==
    IF Truthy(resp) /\ resp.code = 200
    THEN IF body.kind = "invalid"
         THEN [breaches |-> old, task |-> <<"Breach check failed">>, inc |-> 15, ret |-> 0]
         ELSE IF body.kind = "scalar"
         THEN [breaches |-> Json(body), task |-> <<"Breach check failed">>, inc |-> 30, ret |-> 0]
         ELSE [breaches |-> Json(body), task |-> <<"Breaches found">>, inc |-> 15,
               ret |-> Len(Json(body).items)]
    ELSE [breaches |-> old, task |-> <<"No breaches found">>, inc |-> 15, ret |-> 0]

\* what the breach lookup answered, as the caller of check_breaches sees it:
\* "failed" (no response, or a status other than 200), or the kind of the
\* body of a 200 answer, with the number of its items
NoLookup == [answer |-> "none", n |-> 0]

LookupOf(resp, body) ==
    IF Truthy(resp) /\ resp.code = 200
    THEN [answer |-> body.kind, n |-> body.n]
    ELSE [answer |-> "failed", n |-> 0]

CheckBreaches ==
    /\ pc = "breaches"
    /\ \E net \in Net, body \in BreachBodies :
         LET r == _safe_request(net)
             resp == IF r.raised THEN NoResponse ELSE r.response
             c == check_breaches(results.findings.breaches, resp, body)
             finding == c.breaches # results.findings.breaches
         IN  /\ finding => okLeft > 0
             /\ okLeft' = IF finding THEN okLeft - 1 ELSE okLeft
             /\ results' = [results EXCEPT !.findings.breaches = c.breaches]
             /\ progress' = _update_progress(progress,
                              IF r.raised THEN <<"Breach check failed">> ELSE c.task, c.inc)
             /\ breach_count' = c.ret
             /\ lookup' = LookupOf(resp, body)
             /\ anomaly' = (anomaly \/ LookupOf(resp, body).answer = "invalid")
    /\ pc' = "social"
    /\ UNCHANGED <<cfgVars, ctx, localVars, social_media_count, mentions_count, outcome,
                   intrLeft, statusLog, fileLog, quitCount, smWrites, matched, stages,
                   intr, saveFailed, threadVars, probeLog, outFile, fetchLog,
                   inputVars, guiVars>>

\* check_social_media starts: found = 0 and the loop over the platforms
StartSocial ==
    /\ pc = "social"
    /\ pc' = "platform"
    /\ stages' = stages \cup {"social"}
    /\ found' = 0
    /\ platform' = 1
    /\ UNCHANGED <<cfgVars, results, progress, ctx, variant, engine, query, engine_results,
                   domain_info, countVars, outcome, okLeft, intrLeft, statusLog, fileLog,
                   quitCount, smWrites, matched, intr, saveFailed, threadVars, obsVars,
                   inputVars, guiVars>>

\* the head of the loop over the platforms: the next platform is announced
\* and its first variant is probed
PlatformHead ==
    /\ pc = "platform"
    /\ platform <= Len(Platforms)
    /\ progress' = _update_progress(progress, <<"Checking", Platforms[platform]>>, 2)
    /\ variant' = 1
    /\ pc' = "probe"
    /\ UNCHANGED <<cfgVars, results, ctx, platform, found, engine, query, engine_results,
                   domain_info, countVars, outcome, okLeft, intrLeft, statusLog, fileLog,
                   quitCount, smWrites, matched, stages, intr, saveFailed,
                   threadVars, obsVars, inputVars, guiVars>>

\* the loop over the platforms is over: check_social_media returns found
SocialDone ==
    /\ pc = "platform"
    /\ platform > Len(Platforms)
    /\ progress' = _update_progress(progress, <<"Social media scan complete">>, 10)
    /\ social_media_count' = found
    /\ ResetLocals
    /\ pc' = "mentions"
    /\ UNCHANGED <<cfgVars, results, ctx, breach_count, mentions_count, outcome, okLeft,
                   intrLeft, statusLog, fileLog, quitCount, smWrites, matched, stages, intr,
                   saveFailed, threadVars, obsVars,
                   inputVars, guiVars>>

\* check_func has returned ok for the current variant: found and the loop
ReturnFromCheck(ok) ==
    LET s == LoopAfterCheck(ok, variant, Len(username_variations))
    IN  /\ found' = found + s.inc
        /\ matched' = IF ok THEN matched \cup {Platforms[platform]} ELSE matched
        /\ IF s.next = 0
           THEN platform' = platform + 1 /\ variant' = 0 /\ pc' = "platform"
           ELSE platform' = platform /\ variant' = s.next /\ pc' = "probe"

\* the record of one call of check_func: the platform, the index of the
\* variant in the list, and what the call did: "yes" (the profile was
\* recorded), "no" (False was returned and nothing recorded) or "raise"
Probed(p, v, r) == [platform |-> p, variant |-> v, result |-> r]

\* one call of check_func(username, url_template), up to its return or to
\* the deep-scan request it makes
Probe ==
    /\ pc = "probe"
    /\ \E net \in Net :
         LET p == Platforms[platform]
             username == username_variations[variant]
             r == check_func(p, driver, net)
             fresh == r = "yes" /\ smWrites[p] = 0
         IN  /\ fresh => okLeft > 0
             /\ probeLog' = Append(probeLog, Probed(p, variant, r))
             /\ anomaly' = (anomaly \/ r = "raise")
             /\ okLeft' = IF fresh THEN okLeft - 1 ELSE okLeft
             /\ IF r = "raise"
                THEN /\ RaiseTo("except_exc")
                     /\ UNCHANGED <<results, smWrites, matched>>
                ELSE IF r = "yes"
                THEN /\ results' = [results EXCEPT !.findings.social_media =
                                        Put(@, p, Entry(p, username))]
                     /\ smWrites' = [smWrites EXCEPT ![p] = @ + 1]
                     /\ IF deep_scan /\ HasDeepScan(p, driver)
                        THEN /\ pc' = "deep"
                             /\ UNCHANGED <<platform, variant, found, matched>>
                        ELSE ReturnFromCheck(TRUE)
                     /\ UNCHANGED <<engine, query, engine_results, domain_info>>
                ELSE /\ ReturnFromCheck(FALSE)
                     /\ UNCHANGED <<results, smWrites, engine, query, engine_results,
                                    domain_info>>
    /\ UNCHANGED <<cfgVars, progress, ctx, countVars, outcome, intrLeft, statusLog, fileLog,
                   quitCount, stages, intr, saveFailed, threadVars, lookup, outFile,
                   fetchLog,
                   inputVars, guiVars>>

\* the deep-scan function of the current platform, then the return of True
DeepScan ==
    /\ pc = "deep"
    /\ \E o \in (IF net_down THEN {DeepFail} ELSE DeepOutcomes) :
         LET p == Platforms[platform]
         IN  /\ results' = [results EXCEPT !.findings.comments_mentions = deep_func(p, @, o)]
             /\ progress' = _update_progress(progress, <<"Scanning", p>>, 0)
    /\ ReturnFromCheck(TRUE)
    /\ UNCHANGED <<cfgVars, ctx, engine, query, engine_results, domain_info, countVars,
                   outcome, okLeft, intrLeft, statusLog, fileLog, quitCount, smWrites,
                   stages, intr, saveFailed, threadVars, obsVars,
                   inputVars, guiVars>>

---------------------------------------------------------------------------
(* search_public_mentions *)

\* the numbers of qualifying links on a result page that are tried
LinkCounts == {0, 1, MaxLinks}

\* the links[:3] of a result page with n qualifying links, for query q
PageLinks(q, n) == Take([k \in 1..n |-> <<q, k>>], LinksPerQuery)

StartMentions ==
    /\ pc = "mentions"
    /\ pc' = "engine"
    /\ stages' = stages \cup {"mentions"}
    /\ found' = 0
    /\ engine' = 1
    /\ UNCHANGED <<cfgVars, results, progress, ctx, platform, variant, query, engine_results,
                   domain_info, countVars, outcome, okLeft, intrLeft, statusLog, fileLog,
                   quitCount, smWrites, matched, intr, saveFailed, threadVars, obsVars,
                   inputVars, guiVars>>

\* the head of the loop over the engines
EngineHead ==
    /\ pc = "engine"
    /\ engine <= Len(Engines)
    /\ progress' = _update_progress(progress, <<"Searching", Engines[engine]>>, 3)
    /\ engine_results' = <<>>
    /\ query' = 1
    /\ pc' = "query"
    /\ UNCHANGED <<cfgVars, results, ctx, platform, variant, found, engine, domain_info,
                   countVars, outcome, okLeft, intrLeft, statusLog, fileLog, quitCount,
                   smWrites, matched, stages, intr, saveFailed, threadVars, obsVars,
                   inputVars, guiVars>>

\* the loop over the engines is over: search_public_mentions returns found
MentionsDone ==
    /\ pc = "engine"
    /\ engine > Len(Engines)
    /\ progress' = _update_progress(progress, <<"Public mentions search complete">>, 15)
    /\ mentions_count' = found
    /\ ResetLocals
    /\ pc' = "domain"
    /\ UNCHANGED <<cfgVars, results, ctx, breach_count, social_media_count, outcome, okLeft,
                   intrLeft, statusLog, fileLog, quitCount, smWrites, matched, stages, intr,
                   saveFailed, threadVars, obsVars,
                   inputVars, guiVars>>

\* the record of a fetch of search_public_mentions that gave a page with
\* qualifying links: the engine, the index of the query, and the number of
\* these links on the page
Queried(e, q, n) == [engine |-> e, query |-> q, links |-> n]

\* one query of one engine; after the last query the engine's links are
\* stored when there are any
Search ==
    /\ pc = "query"
    /\ \E net \in Net, n \in LinkCounts :
         LET r == _safe_request(net)
             ok == ~r.raised /\ Truthy(r.response) /\ r.response.code = 200
             links == IF ok /\ net.parse_ok THEN PageLinks(query, n) ELSE <<>>
             er == engine_results \o links
         IN  /\ (links # <<>>) => okLeft > 0
             /\ anomaly' = (anomaly \/ (ok /\ ~net.parse_ok))
             /\ okLeft' = IF links # <<>> THEN okLeft - 1 ELSE okLeft
             /\ fetchLog' = IF links # <<>>
                            THEN Append(fetchLog, Queried(Engines[engine], query, n))
                            ELSE fetchLog
             /\ IF r.raised \/ (ok /\ ~net.parse_ok)
                THEN /\ RaiseTo("except_exc")
                     /\ UNCHANGED results
                ELSE IF query < NumQueries
                THEN /\ query' = query + 1
                     /\ engine_results' = er
                     /\ pc' = "query"
                     /\ UNCHANGED <<results, found, engine, platform, variant, domain_info>>
                ELSE /\ results' = IF er # <<>>
                                   THEN [results EXCEPT !.findings.public_mentions =
                                             Put(@, Engines[engine], er)]
                                   ELSE results
                     /\ found' = found + Len(er)
                     /\ engine' = engine + 1
                     /\ query' = 0
                     /\ engine_results' = <<>>
                     /\ pc' = "engine"
                     /\ UNCHANGED <<platform, variant, domain_info>>
    /\ UNCHANGED <<cfgVars, progress, ctx, countVars, outcome, intrLeft, statusLog, fileLog,
                   quitCount, smWrites, matched, stages, intr, saveFailed, threadVars, lookup, probeLog, outFile,
                   inputVars, guiVars>>

---------------------------------------------------------------------------
(* analyze_domain *)

StartDomain ==
    /\ pc = "domain"
    /\ pc' = "domain_http"
    /\ stages' = stages \cup {"domain"}
    /\ progress' = _update_progress(progress, <<"Analyzing domain">>, 10)
    /\ domain_info' = Put(EmptyDict, "domain", "domain")
    /\ UNCHANGED <<cfgVars, results, ctx, platform, variant, found, engine, query,
                   engine_results, countVars, outcome, okLeft, intrLeft, statusLog, fileLog,
                   quitCount, smWrites, matched, intr, saveFailed, threadVars, obsVars,
                   inputVars, guiVars>>

\* bool(response and response.status_code == 200); any exception gives False
website_accessible(net) ==
    LET r == _safe_request(net)
    IN  IF ~r.raised /\ Truthy(r.response) /\ r.response.code = 200 THEN "true" ELSE "false"

\* the reachability check has given `accessible`
HttpChecked(accessible) ==
    /\ domain_info' = Put(domain_info, "website_accessible", accessible)
    /\ pc' = "domain_dns"
    /\ UNCHANGED <<results, progress, platform, variant, found, engine, query,
                   engine_results, countVars>>

DomainHttp ==
    /\ pc = "domain_http"
    /\ \E net \in Net :
         /\ (website_accessible(net) = "true") => okLeft > 0
         /\ okLeft' = IF website_accessible(net) = "true" THEN okLeft - 1 ELSE okLeft
         /\ HttpChecked(website_accessible(net))
    /\ UNCHANGED <<cfgVars, ctx, outcome, intrLeft, statusLog, fileLog, quitCount,
                   smWrites, matched, stages, intr, saveFailed, threadVars, obsVars,
                   inputVars, guiVars>>

\* the MX lookup: dnspython missing, records, no records, or an error
DnsOutcomes == {"import_error", "records", "empty", "error"}

email_hosted(o) ==
    CASE o = "import_error" -> "unknown"
      [] o = "records"      -> "true"
      [] OTHER              -> "false"

\* analyze_domain storing its dict in the slot of search_public_mentions
\* instead of its own
MxCheckedOtherSlot(hosted) ==
    /\ results' = [results EXCEPT !.findings.public_mentions =
                       Put(domain_info, "email_hosted", hosted)]
    /\ progress' = _update_progress(progress, <<"Domain analysis complete">>, 10)
    /\ ResetLocals
    /\ pc' = "final"
    /\ UNCHANGED countVars

\* the MX check has given `hosted`: the dict is stored and analyze_domain
\* returns
MxChecked(hosted) ==
    /\ results' = [results EXCEPT !.findings.domain_info =
                       Put(domain_info, "email_hosted", hosted)]
    /\ progress' = _update_progress(progress, <<"Domain analysis complete">>, 10)
    /\ ResetLocals
    /\ pc' = "final"
    /\ UNCHANGED countVars

DomainDns ==
    /\ pc = "domain_dns"
    /\ \E o \in DnsOutcomes :
         /\ (email_hosted(o) # "false") => okLeft > 0
         /\ okLeft' = IF email_hosted(o) # "false" THEN okLeft - 1 ELSE okLeft
         /\ MxChecked(email_hosted(o))
    /\ UNCHANGED <<cfgVars, ctx, outcome, intrLeft, statusLog, fileLog, quitCount,
                   smWrites, matched, stages, intr, saveFailed, threadVars, obsVars,
                   inputVars, guiVars>>

---------------------------------------------------------------------------
(* the end of run_scan: the terminal status, the report file, the driver *)

\* self.results['status'] = status
SetStatus(status) ==
    /\ results' = [results EXCEPT !.status = status]
    /\ statusLog' = Append(statusLog, status)

\* the final progress update, then the status 'completed' and the call of
\* _save_results from the try block
Finalize ==
    /\ pc = "final"
    /\ progress' = _update_progress(progress, <<"Analysis complete">>, 20)
    /\ SetStatus("completed")
    /\ ctx' = "try"
    /\ pc' = "save"
    /\ UNCHANGED <<cfgVars, localVars, countVars, outcome, okLeft, intrLeft, fileLog,
                   quitCount, smWrites, matched, stages, intr, saveFailed,
                   threadVars, obsVars, inputVars, guiVars>>

\* except KeyboardInterrupt
HandleInterrupt ==
    /\ pc = "except_intr"
    /\ SetStatus("interrupted")
    /\ ctx' = "handler"
    /\ pc' = "save"
    /\ UNCHANGED <<cfgVars, progress, localVars, countVars, outcome, okLeft, intrLeft,
                   fileLog, quitCount, smWrites, matched, stages, intr,
                   saveFailed, threadVars, obsVars,
                   inputVars, guiVars>>

\* except Exception
HandleException ==
    /\ pc = "except_exc"
    /\ SetStatus("failed")
    /\ ctx' = "handler"
    /\ pc' = "save"
    /\ UNCHANGED <<cfgVars, progress, localVars, countVars, outcome, okLeft, intrLeft,
                   fileLog, quitCount, smWrites, matched, stages, intr,
                   saveFailed, threadVars, obsVars,
                   inputVars, guiVars>>

\* what happens in _save_results: the file is written and the function
\* returns; open() or json.dump raises and no document is written; the file
\* is written and the print that follows raises (not in GUI mode)
SaveOutcomes == {"ok", "write_fails", "print_fails"}

\* _save_results: the log of the documents written, and whether it raised
_save_results(log, doc, o) ==
    [log |-> IF o \in {"ok", "print_fails"} THEN Append(log, doc) ELSE log,
     raised |-> o # "ok"]

\* an exception leaves _save_results: from the try block it is handled by
\* run_scan, from a handler it leaves run_scan through finally
SaveRaised(handler) ==
    /\ saveFailed' = TRUE
    /\ IF ctx = "try"
       THEN pc' = handler /\ UNCHANGED outcome
       ELSE pc' = "finally" /\ outcome' = "raised"

SaveResults ==
    /\ pc = "save"
    /\ \E o \in SaveOutcomes :
         LET s == _save_results(fileLog, results, o)
         IN  /\ (o = "print_fails") => ~gui_mode
             /\ fileLog' = s.log
             /\ IF s.raised
                THEN SaveRaised("except_exc")
                ELSE /\ pc' = "finally"
                     /\ outcome' = "returned"
                     /\ UNCHANGED saveFailed
    /\ UNCHANGED <<cfgVars, results, progress, ctx, localVars, countVars, okLeft, intrLeft,
                   statusLog, quitCount, smWrites, matched, stages, intr,
                   threadVars, obsVars, inputVars, guiVars>>

\* the driver quit at the end of the paths that return, not in finally
FinallyOnReturnOnly ==
    /\ pc = "finally"
    /\ quitCount' = IF driver /\ outcome = "returned" THEN quitCount + 1 ELSE quitCount
    /\ pc' = "done"
    /\ UNCHANGED <<cfgVars, results, progress, ctx, localVars, countVars, outcome, okLeft,
                   intrLeft, statusLog, fileLog, smWrites, matched, stages, intr,
                   saveFailed, threadVars, obsVars,
                   inputVars, guiVars>>

\* finally: the driver is quit when there is one
Finally ==
    /\ pc = "finally"
    /\ quitCount' = IF driver THEN quitCount + 1 ELSE quitCount
    /\ pc' = "done"
    /\ UNCHANGED <<cfgVars, results, progress, ctx, localVars, countVars, outcome, okLeft,
                   intrLeft, statusLog, fileLog, smWrites, matched, stages, intr,
                   saveFailed, threadVars, obsVars,
                   inputVars, guiVars>>

---------------------------------------------------------------------------
(* main, after run_scan has returned: the copy written to args.output *)

\* None, as json.dump writes it (null)
ReturnedNone == [kind |-> "null"]

\* the value run_scan returns: self.results from the try block; the handlers
\* have no return statement, and the function ends after finally with None
ReturnValue == IF ctx = "try" THEN results ELSE ReturnedNone

\* results = scanner.run_scan(); if args.output: json.dump(results, f).  An
\* error of the write is caught and printed, and leaves no document
MainOutput ==
    /\ pc = "done"
    /\ ~gui_mode
    /\ outcome = "returned"
    /\ outFile = <<>>
    /\ outFile' = Append(outFile, ReturnValue)
    /\ UNCHANGED <<cfgVars, results, progress, pc, ctx, localVars, countVars, outcome,
                   okLeft, intrLeft, statusLog, fileLog, quitCount, smWrites, matched,
                   stages, intr, saveFailed, threadVars, lookup, probeLog, anomaly,
                   fetchLog, inputVars, guiVars>>

---------------------------------------------------------------------------
(* KeyboardInterrupt.  Python raises it in the main thread, at the place the
   thread has reached.  In GUI mode run_scan runs in a worker thread
   (threading.Thread(target=self.run_scan_thread)), which never receives it. *)

\* the positions inside the stages, under the try block of run_scan
StagePcs ==
    {"breaches", "social", "platform", "probe", "deep", "mentions", "engine", "query",
     "domain", "domain_http", "domain_dns", "final"}

\* the positions whose transport call is inside a try with a bare except
\* clause, which catches KeyboardInterrupt too: the render of _check_twitter
\* and _check_instagram, the deep-scan functions (_scan_twitter_comments
\* lets it through to the bare except of _check_twitter), and the two checks
\* of analyze_domain
Swallowing ==
    \/ pc = "probe" /\ InBareExcept(Platforms[platform], driver)
    \/ pc = "deep"
    \/ pc \in {"domain_http", "domain_dns"}

\* an interrupt is delivered; the first one is remembered with the stages
\* started and the findings recorded before it
Delivered ==
    /\ ~gui_mode
    /\ intrLeft > 0
    /\ intrLeft' = intrLeft - 1
    /\ intr' = IF intr.seen THEN intr
               ELSE [seen |-> TRUE, at |-> pc, stages |-> stages,
                     findings |-> results.findings]

\* the interrupt is raised where only run_scan's except KeyboardInterrupt
\* catches it
InterruptPropagates ==
    /\ pc \in StagePcs
    /\ ~Swallowing
    /\ Delivered
    /\ RaiseTo("except_intr")
    /\ UNCHANGED <<cfgVars, results, progress, ctx, countVars, outcome, okLeft, statusLog,
                   fileLog, quitCount, smWrites, matched, stages, saveFailed,
                   threadVars, obsVars, inputVars, guiVars>>

\* the interrupt is raised inside a bare except: the check function returns
\* False (from a deep scan of GitHub or Reddit: True), the domain check
\* records False, and the scan goes on
InterruptSwallowed ==
    /\ Swallowing
    /\ Delivered
    /\ probeLog' = IF pc = "probe"
                   THEN Append(probeLog, Probed(Platforms[platform], variant, "no"))
                   ELSE probeLog
    /\ CASE pc = "probe" ->
              /\ ReturnFromCheck(FALSE)
              /\ UNCHANGED <<results, progress, engine, query, engine_results, domain_info,
                             countVars>>
         [] pc = "deep" ->
              /\ ReturnFromCheck(Platforms[platform] # "Twitter")
              /\ UNCHANGED <<results, engine, query, engine_results, domain_info, countVars>>
              /\ progress' = _update_progress(progress, <<"Scanning", Platforms[platform]>>, 0)
         [] pc = "domain_http" ->
              /\ HttpChecked("false")
              /\ UNCHANGED matched
         [] pc = "domain_dns" ->
              /\ MxChecked("false")
              /\ UNCHANGED matched
    /\ UNCHANGED <<cfgVars, ctx, outcome, okLeft, statusLog, fileLog, quitCount, smWrites,
                   stages, saveFailed, threadVars, lookup, anomaly, outFile, fetchLog,
                   inputVars, guiVars>>

\* the interrupt is raised inside _save_results, before or after the file
\* has been written
InterruptSave ==
    /\ pc = "save"
    /\ Delivered
    /\ \E written \in BOOLEAN :
         fileLog' = IF written THEN Append(fileLog, results) ELSE fileLog
    /\ SaveRaised("except_intr")
    /\ UNCHANGED <<cfgVars, results, progress, ctx, localVars, countVars, okLeft, statusLog,
                   quitCount, smWrites, matched, stages, threadVars, obsVars,
                   inputVars, guiVars>>

\* the interrupt is raised inside a handler of run_scan, before the status
\* is set: it leaves run_scan through finally
InterruptHandler ==
    /\ pc \in {"except_intr", "except_exc"}
    /\ Delivered
    /\ pc' = "finally"
    /\ outcome' = "raised"
    /\ UNCHANGED <<cfgVars, results, progress, ctx, localVars, countVars, okLeft, statusLog,
                   fileLog, quitCount, smWrites, matched, stages, saveFailed,
                   threadVars, obsVars, inputVars, guiVars>>

---------------------------------------------------------------------------
(* One scan *)

Next ==
    \/ RunScan
    \/ CheckBreaches
    \/ StartSocial
    \/ PlatformHead
    \/ Probe
    \/ DeepScan
    \/ SocialDone
    \/ StartMentions
    \/ EngineHead
    \/ Search
    \/ MentionsDone
    \/ StartDomain
    \/ DomainHttp
    \/ DomainDns
    \/ Finalize
    \/ HandleInterrupt
    \/ HandleException
    \/ SaveResults
    \/ Finally
    \/ InterruptPropagates
    \/ InterruptSwallowed
    \/ InterruptSave
    \/ InterruptHandler
    \/ MainOutput

Spec == Init /\ [][Next]_vars

---------------------------------------------------------------------------
(* _update_progress called by several threads.  Each call creates its own
   threading.Lock() and enters it; the read and the write of
   progress['current'] += increment are two steps. *)

\* the increments that are passed
Increments == {0, 2, 5}

\* the lists of increments a thread passes, one per call
CallLists ==
    UNION {[1..n -> Increments] : n \in 1..MaxCalls}

\* the lock object the call of thread t creates: a new one in every call
LockOf(t) == <<t, Len(tcalls[t])>>

\* with threading.Lock(): the new lock is acquired; then the task label
TEnter(t) ==
    /\ tpc[t] = "idle"
    /\ tcalls[t] # <<>>
    /\ LockOf(t) \notin held
    /\ held' = held \cup {LockOf(t)}
    /\ progress' = [progress EXCEPT !.active_task = <<"task", t>>]
    /\ tpc' = [tpc EXCEPT ![t] = "locked"]
    /\ UNCHANGED <<cfgVars, results, pc, ctx, localVars, countVars, outcome, okLeft, intrLeft,
                   statusLog, fileLog, quitCount, smWrites, matched, stages, intr, saveFailed, obsVars, inputVars, guiVars,
                   tlocal, tcalls, sumInc>>

\* if increment: the read of progress['current']
TRead(t) ==
    /\ tpc[t] = "locked"
    /\ tlocal' = IF Head(tcalls[t]) # 0 THEN [tlocal EXCEPT ![t] = progress.current] ELSE tlocal
    /\ tpc' = [tpc EXCEPT ![t] = IF Head(tcalls[t]) # 0 THEN "read" ELSE "written"]
    /\ UNCHANGED <<cfgVars, results, progress, pc, ctx, localVars, countVars, outcome, okLeft,
                   intrLeft, statusLog, fileLog, quitCount, smWrites, matched, stages, intr,
                   saveFailed, obsVars, inputVars, guiVars, tcalls, held, sumInc>>

\* the write of progress['current']
TWrite(t) ==
    /\ tpc[t] = "read"
    /\ progress' = [progress EXCEPT !.current = tlocal[t] + Head(tcalls[t])]
    /\ tpc' = [tpc EXCEPT ![t] = "written"]
    /\ UNCHANGED <<cfgVars, results, pc, ctx, localVars, countVars, outcome, okLeft, intrLeft,
                   statusLog, fileLog, quitCount, smWrites, matched, stages, intr, saveFailed, obsVars, inputVars, guiVars,
                   tlocal, tcalls, held, sumInc>>

\* the end of the with block: the lock is released and the call returns
TExit(t) ==
    /\ tpc[t] = "written"
    /\ held' = held \ {LockOf(t)}
    /\ sumInc' = sumInc + Head(tcalls[t])
    /\ tcalls' = [tcalls EXCEPT ![t] = Tail(@)]
    /\ tpc' = [tpc EXCEPT ![t] = "idle"]
    /\ UNCHANGED <<cfgVars, results, progress, pc, ctx, localVars, countVars, outcome, okLeft,
                   intrLeft, statusLog, fileLog, quitCount, smWrites, matched, stages, intr,
                   saveFailed, obsVars, inputVars, guiVars, tlocal>>

InitThreads ==
    /\ gui_mode = TRUE
    /\ deep_scan = FALSE
    /\ driver = FALSE
    /\ net_down = FALSE
    /\ username_variations = [i \in 1..NumVariants |-> i]
    /\ InitScanner
    /\ tpc = [t \in Threads |-> "idle"]
    /\ tlocal = [t \in Threads |-> 0]
    /\ tcalls \in [Threads -> CallLists]
    /\ held = {}
    /\ sumInc = 0
    /\ NoInput
    /\ NoGui

NextThreads ==
    \E t \in Threads : TEnter(t) \/ TRead(t) \/ TWrite(t) \/ TExit(t)

SpecThreads == InitThreads /\ [][NextThreads]_vars

---------------------------------------------------------------------------
(* The input: main and start_scan take the string the user gave, and
   __init__ derives email, domain, base_username and the variant list from
   it.  Strings are sequences of characters. *)

\* the characters tried: an upper-case and a lower-case letter, the
\* characters the code treats specially, a blank and a line break
Chars == {"J", "a", ".", "+", "@", " ", "\n"}

Inputs == UNION {[1..n -> Chars] : n \in 0..MaxEmailLen}

Whitespace == {" ", "\n"}

Range(s) == {s[i] : i \in DOMAIN s}

\* the least and the greatest element of a non-empty set of numbers
Least(S) == CHOOSE x \in S : \A y \in S : x <= y

Greatest(S) == CHOOSE x \in S : \A y \in S : y <= x

\* str.lower()
Lower(s) == [i \in DOMAIN s |-> IF s[i] = "J" THEN "j" ELSE s[i]]

\* str.strip()
Strip(s) ==
    LET keep == {i \in DOMAIN s : s[i] \notin Whitespace}
    IN  IF keep = {} THEN <<>> ELSE SubSeq(s, Least(keep), Greatest(keep))

\* the positions of character c in s
Positions(s, c) == {i \in DOMAIN s : s[i] = c}

\* s.split('@')[0]
SplitFirst(s) ==
    IF Positions(s, "@") = {} THEN s ELSE SubSeq(s, 1, Least(Positions(s, "@")) - 1)

\* s.split('@')[-1]
SplitLast(s) ==
    IF Positions(s, "@") = {} THEN s ELSE SubSeq(s, Greatest(Positions(s, "@")) + 1, Len(s))

\* re.sub(r'\+.*$', '', s): `.` matches no line break, and `$` matches at the
\* end of the string or before a line break that ends it; so the match
\* starts at the first '+' that has no line break after it other than a
\* final one, and a final line break is kept
PlusMatches(s) ==
    {i \in Positions(s, "+") : \A k \in (i + 1)..(Len(s) - 1) : s[k] # "\n"}

CutPlus(s) ==
    IF PlusMatches(s) = {} THEN s
    ELSE LET i == Least(PlusMatches(s))
         IN  SubSeq(s, 1, i - 1) \o
             (IF i < Len(s) /\ s[Len(s)] = "\n" THEN <<"\n">> ELSE <<>>)

IsNotDot(c) == c # "."

\* re.sub(r'\.(?=[^@]*$)', '', s) on a string without '@': every '.' is
\* followed by characters other than '@' up to the end, and is removed
RemoveDots(s) == SelectSeq(s, IsNotDot)

\* _extract_username, given self.email
_extract_username(e) == RemoveDots(CutPlus(SplitFirst(e)))

\* the attributes __init__ sets from its argument
Scanner(arg) ==
    LET e == Strip(Lower(arg))
    IN  [email |-> e, domain |-> SplitLast(e), base_username |-> _extract_username(e)]

\* __init__: the attributes, the variant list in the order list(set) gives
\* this time, and the driver when the browser starts
Construct(arg) ==
    /\ email' = Scanner(arg).email
    /\ domain' = Scanner(arg).domain
    /\ base_username' = Scanner(arg).base_username
    /\ username_variations' \in Orderings
    /\ runs' = Append(runs, username_variations')
    /\ driver' \in BOOLEAN
    /\ phase' = "scanning"

\* the end of start_scan: the scanner just constructed (hasDriver: its
\* browser started) is stored in self.scanner, and a daemon thread with the
\* target self.run_scan_thread is created and started
StartWorker(hasDriver) ==
    /\ scanner' = Len(drivers) + 1
    /\ drivers' = Append(drivers, [has |-> hasDriver, quits |-> 0])
    /\ workers' = Append(workers, [st |-> "started", runs |-> 0])
    /\ UNCHANGED exited

\* the invocation ends without a scanner
Reject ==
    /\ phase' = "rejected"
    /\ UNCHANGED <<email, domain, base_username, username_variations, runs, driver>>

\* main without --gui: help and exit when no email is given; otherwise the
\* scanner is constructed from args.email and run_scan is called
main ==
    /\ phase = "input"
    /\ entry = "cli"
    /\ IF raw = <<>> THEN Reject ELSE Construct(raw)
    /\ UNCHANGED <<gui_mode, deep_scan, net_down, results, progress, pc, ctx, localVars,
                   countVars, outcome, okLeft, intrLeft, statusLog, fileLog, quitCount,
                   smWrites, matched, stages, intr, saveFailed, threadVars, obsVars,
                   raw, entry, guiVars>>

\* start_scan: the entry is stripped; an empty one or one without '@' is
\* refused with a message box; otherwise the scanner is constructed and the
\* worker thread started
start_scan ==
    /\ phase = "input"
    /\ entry = "gui"
    /\ IF Strip(raw) = <<>> \/ "@" \notin Range(Strip(raw))
       THEN Reject /\ UNCHANGED guiVars
       ELSE Construct(Strip(raw)) /\ StartWorker(driver')
    /\ UNCHANGED <<gui_mode, deep_scan, net_down, results, progress, pc, ctx, localVars,
                   countVars, outcome, okLeft, intrLeft, statusLog, fileLog, quitCount,
                   smWrites, matched, stages, intr, saveFailed, threadVars, obsVars,
                   raw, entry>>

\* the program is run again on the same input: a new process, a new scanner
NextRun ==
    /\ phase = "scanning"
    /\ Len(runs) < MaxRuns
    /\ phase' = "input"
    /\ email' = <<>>
    /\ domain' = <<>>
    /\ base_username' = <<>>
    /\ username_variations' = <<>>
    /\ driver' = FALSE
    /\ scanner' = 0
    /\ workers' = <<>>
    /\ drivers' = <<>>
    /\ UNCHANGED <<gui_mode, deep_scan, net_down, results, progress, pc, ctx, localVars,
                   countVars, outcome, okLeft, intrLeft, statusLog, fileLog, quitCount,
                   smWrites, matched, stages, intr, saveFailed, threadVars, obsVars,
                   raw, entry, runs, exited>>

InitInput ==
    /\ raw \in Inputs
    /\ entry \in {"cli", "gui"}
    /\ email = <<>>
    /\ domain = <<>>
    /\ base_username = <<>>
    /\ phase = "input"
    /\ runs = <<>>
    /\ gui_mode = (entry = "gui")
    /\ deep_scan = FALSE
    /\ driver = FALSE
    /\ net_down = FALSE
    /\ username_variations = <<>>
    /\ InitScanner
    /\ IdleThreads
    /\ NoGui

NextInput ==
    \/ main
    \/ start_scan
    \/ NextRun

SpecInput == InitInput /\ [][NextInput]_vars

---------------------------------------------------------------------------
(* The GUI session.  Start Scan can be pressed while earlier worker threads
   are still running: nothing disables the button.  A worker evaluates
   self.scanner when run_scan_thread starts to execute, not when the thread
   is created. *)

\* Start Scan pressed with a valid entry: start_scan up to thread.start()
PressStart ==
    /\ ~exited
    /\ Len(drivers) < MaxScans
    /\ \E hasDriver \in BOOLEAN : StartWorker(hasDriver)
    /\ UNCHANGED <<cfgVars, results, progress, pc, ctx, localVars, countVars, outcome,
                   okLeft, intrLeft, statusLog, fileLog, quitCount, smWrites, matched,
                   stages, intr, saveFailed, threadVars, obsVars, inputVars>>

\* run_scan_thread starts to execute in worker w: self.scanner is read and
\* its run_scan is called
WorkerBegin(w) ==
    /\ ~exited
    /\ workers[w].st = "started"
    /\ workers' = [workers EXCEPT ![w] = [st |-> "running", runs |-> scanner]]
    /\ UNCHANGED <<cfgVars, results, progress, pc, ctx, localVars, countVars, outcome,
                   okLeft, intrLeft, statusLog, fileLog, quitCount, smWrites, matched,
                   stages, intr, saveFailed, threadVars, obsVars, inputVars,
                   scanner, drivers, exited>>

\* run_scan of worker w's scanner ends: its finally clause quits the driver
\* of that scanner when it has one
WorkerEnd(w) ==
    /\ ~exited
    /\ workers[w].st = "running"
    /\ drivers' = [drivers EXCEPT ![workers[w].runs].quits =
                       IF drivers[workers[w].runs].has THEN @ + 1 ELSE @]
    /\ workers' = [workers EXCEPT ![w].st = "finished"]
    /\ UNCHANGED <<cfgVars, results, progress, pc, ctx, localVars, countVars, outcome,
                   okLeft, intrLeft, statusLog, fileLog, quitCount, smWrites, matched,
                   stages, intr, saveFailed, threadVars, obsVars, inputVars,
                   scanner, exited>>

\* the window is closed: mainloop returns, main returns, and the daemon
\* threads end with the process wherever they are
CloseWindow ==
    /\ ~exited
    /\ exited' = TRUE
    /\ UNCHANGED <<cfgVars, results, progress, pc, ctx, localVars, countVars, outcome,
                   okLeft, intrLeft, statusLog, fileLog, quitCount, smWrites, matched,
                   stages, intr, saveFailed, threadVars, obsVars, inputVars,
                   scanner, workers, drivers>>

InitGui ==
    /\ gui_mode = TRUE
    /\ deep_scan = FALSE
    /\ driver = FALSE
    /\ net_down = FALSE
    /\ username_variations = [i \in 1..NumVariants |-> i]
    /\ InitScanner
    /\ IdleThreads
    /\ NoInput
    /\ NoGui

NextGui ==
    \/ PressStart
    \/ CloseWindow
    \/ \E w \in DOMAIN workers : WorkerBegin(w) \/ WorkerEnd(w)

SpecGui == InitGui /\ [][NextGui]_vars

---------------------------------------------------------------------------
(* Properties *)

Terminal == {"completed", "interrupted", "failed"}

AllStages == {"breaches", "social", "mentions", "domain"}

\* the document written last to the results file
LastWritten == fileLog[Len(fileLog)]

\* check_social_media has returned
SocialReturned == pc = "mentions" \/ "mentions" \in stages

\* the first three entries of the variant list
ProbedVariants == {username_variations[i] : i \in 1..Min(ProbeWindow, Len(username_variations))}

\* C1: the status changes exactly once, from 'running' to a terminal value,
\* and a terminal value once set is never replaced: the status is assigned
\* at most once, and exactly once in a run_scan that returns.
C1_StatusChangesOnce ==
    /\ Len(statusLog) <= 1
    /\ (pc = "done" /\ outcome = "returned") => Len(statusLog) = 1
    /\ \A i \in DOMAIN statusLog : statusLog[i] \in Terminal

\* C2: the report file is written exactly once per scan, with the terminal
\* status reached: never twice, and once, with the final status, when
\* run_scan returns.
C2_PersistedOnce ==
    /\ Len(fileLog) <= 1
    /\ (pc = "done" /\ outcome = "returned") =>
          /\ Len(fileLog) = 1
          /\ LastWritten.status = results.status
          /\ results.status \in Terminal

\* C3: no two writes of the report of one scan carry different terminal
\* statuses.
C3_NoTwoTerminalStatesPersisted ==
    \A i, j \in DOMAIN fileLog : fileLog[i].status = fileLog[j].status

\* C4: the status is terminal if and only if the report has been persisted;
\* stated for the states in which run_scan has ended.
C4_TerminalIffPersisted ==
    (pc = "done") => ((results.status \in Terminal) <=> (fileLog # <<>>))

C6_InterruptEndsScan ==
    (pc = "done" /\ intr.seen /\ intr.at \in StagePcs) =>
        /\ statusLog # <<>>
        /\ statusLog[1] = "interrupted"
        /\ stages = intr.stages
        /\ (fileLog # <<>>) => LastWritten.findings = intr.findings

\* C7: concurrent calls of _update_progress exclude each other and lose no
\* increment: at most one thread is inside the with block, and when all
\* calls have returned progress.current is the initial value plus the sum of
\* the increments.
C7_ProgressAtomic ==
    /\ Cardinality({t \in Threads : tpc[t] # "idle"}) <= 1
    /\ (\A t \in Threads : tpc[t] = "idle" /\ tcalls[t] = <<>>) =>
          progress.current = InitProgress.current + sumInc

\* C8: social_media holds at most one entry per platform, the entry is
\* written at most once during the scan, and its username is one of the
\* first three variants.
C8_OneWritePerPlatform ==
    \A p \in DOMAIN smWrites :
        /\ smWrites[p] <= 1
        /\ (p \in DOMAIN results.findings.social_media) =>
              /\ results.findings.social_media[p].username \in ProbedVariants
              /\ smWrites[p] = 1

\* C9: when check_social_media has returned, the value it returned is the
\* number of platforms whose check function reported a match, and the
\* platforms that matched are exactly the platform keys recorded in
\* social_media by the call.
C9_FoundCountsPlatforms ==
    SocialReturned =>
        /\ social_media_count = Cardinality(matched)
        /\ matched = DOMAIN results.findings.social_media
        /\ social_media_count = Cardinality(DOMAIN results.findings.social_media)

\* C10: with no interrupt and every transport call failing, no platform is
\* recorded, no error leaves a stage (the handlers of run_scan are not
\* entered before all four stages have run and 'completed' has been set),
\* and run_scan ends with the status 'completed'.
C10_AllTransportFailuresComplete ==
    (net_down /\ ~intr.seen) =>
        /\ results.findings.social_media = EmptyDict
        /\ pc # "except_intr"
        /\ (pc = "except_exc") => (stages = AllStages /\ statusLog = <<"completed">>)
        /\ (statusLog # <<>>) => stages = AllStages
        /\ (pc = "done") => results.status = "completed"

\* C14: when the breach lookup answers with a list of n records,
\* check_breaches returns n and findings.breaches is that list; when the
\* lookup fails (no response or a status other than 200) it returns 0 and
\* findings.breaches is still the empty list.
C14_BreachCount ==
    /\ (lookup.answer = "list") =>
          /\ breach_count = lookup.n
          /\ results.findings.breaches = JsonList(lookup.n)
    /\ (lookup.answer = "failed") =>
          /\ breach_count = 0
          /\ results.findings.breaches = InitResults.findings.breaches

\* C14: the lookup answered with a list of two records, and two are
\* reported and stored.
C14_Witness ==
    /\ lookup = [answer |-> "list", n |-> 2]
    /\ breach_count = 2
    /\ Len(results.findings.breaches.items) = 2

\* C15: the document written to the output path is the report persisted in
\* the results directory.
C15_OutputIsCopy ==
    (outFile # <<>>) => (fileLog # <<>> /\ outFile[1] = LastWritten)

\* C16: a parse that raises is contained in its stage: the handler for
\* exceptions of run_scan is not entered from a stage, and the status set is
\* not 'failed'.
C16_ParseAnomalyContained ==
    anomaly =>
        /\ ~(pc = "except_exc" /\ statusLog = <<>>)
        /\ (statusLog # <<>>) => statusLog[1] # "failed"

\* C17: for each platform the variants are probed in list order, from the
\* first one, at most the first three, each at most once, and none after a
\* variant that matched.
C17_FirstMatchWins ==
    \A i \in DOMAIN probeLog :
        /\ probeLog[i].variant <= ProbeWindow
        /\ probeLog[i].variant =
               1 + Cardinality({j \in 1..(i - 1) : probeLog[j].platform = probeLog[i].platform})
        /\ \A j \in 1..(i - 1) :
               (probeLog[j].platform = probeLog[i].platform) => probeLog[j].result # "yes"

\* C18: when the breach lookup answers 200 with a body that is not a list of
\* records, check_breaches returns (0) and findings.breaches is still the
\* empty list.
C18_MalformedBreachesIgnored ==
    (lookup.answer \in {"object", "scalar", "invalid"}) =>
        /\ results.findings.breaches = InitResults.findings.breaches
        /\ breach_count = 0

\* C19: the driver is never quit before the report carrying the terminal
\* status has been written.
C19_PersistBeforeRelease ==
    (quitCount > 0) =>
        /\ fileLog # <<>>
        /\ LastWritten.status = results.status
        /\ results.status \in Terminal

\* C11: for an input without '@' no scanner is constructed and no scan is
\* started, on either entry path: no driver is acquired, no variant list
\* built.
C11_NoAtRejected ==
    ("@" \notin Range(raw)) => (phase # "scanning" /\ ~driver /\ runs = <<>>)

\* C12: the variant list is the same, element by element, in every run on
\* the same input.
C12_StableVariantOrder ==
    \A i, j \in DOMAIN runs : runs[i] = runs[j]

\* the part of s before its first '+'
BeforePlus(s) ==
    IF Positions(s, "+") = {} THEN s ELSE SubSeq(s, 1, Least(Positions(s, "+")) - 1)

\* C13: for an input containing '@', base_username is the lower-cased,
\* trimmed part before the first '@', cut at the first '+', with every '.'
\* removed; it holds no '.' and no '+'; domain is the part after the last
\* '@'.
C13_BaseUsername ==
    (phase = "scanning" /\ "@" \in Range(raw)) =>
        /\ base_username = RemoveDots(BeforePlus(SplitFirst(Strip(Lower(raw)))))
        /\ "." \notin Range(base_username)
        /\ "+" \notin Range(base_username)
        /\ domain = SplitLast(Strip(Lower(raw)))

\* the worker threads that run, or have run, scanner s
RunnersOf(s) == {w \in DOMAIN workers : workers[w].runs = s}

\* C20: no scanner is run by two worker threads; and when every worker
\* thread started has finished, every scanner constructed has been run by
\* exactly one of them and every driver acquired has been quit once.
C20_OneWorkerPerScanner ==
    /\ \A s \in DOMAIN drivers : Cardinality(RunnersOf(s)) <= 1
    /\ (\A w \in DOMAIN workers : workers[w].st = "finished") =>
          \A s \in DOMAIN drivers :
              /\ Cardinality(RunnersOf(s)) = 1
              /\ drivers[s].quits = (IF drivers[s].has THEN 1 ELSE 0)

\* the findings slots
Slots == {"breaches", "social_media", "public_mentions", "comments_mentions", "domain_info"}

\* the stage whose code is running at position p: check_breaches,
\* check_social_media (with the checks and deep scans it calls),
\* search_public_mentions, analyze_domain; "none" outside the four stages
StageAt(p) ==
    CASE p = "breaches"                                  -> "check_breaches"
      [] p \in {"social", "platform", "probe", "deep"}   -> "check_social_media"
      [] p \in {"mentions", "engine", "query"}           -> "search_public_mentions"
      [] p \in {"domain", "domain_http", "domain_dns"}   -> "analyze_domain"
      [] OTHER                                           -> "none"

\* the slot the stage is named after
OwnSlot(stage) ==
    CASE stage = "check_breaches"         -> {"breaches"}
      [] stage = "check_social_media"     -> {"social_media"}
      [] stage = "search_public_mentions" -> {"public_mentions"}
      [] stage = "analyze_domain"         -> {"domain_info"}
      [] OTHER                            -> {}

\* the slots changed by the step
Changed == {s \in Slots : results'.findings[s] # results.findings[s]}

\* C21 as stated: every step changes only the slot its stage is named after
\* (check_breaches only breaches, check_social_media only social_media,
\* search_public_mentions only public_mentions, analyze_domain only
\* domain_info), and email and scan_date never change.
C21_OwnSlotOnly ==
    [][/\ Changed \subseteq OwnSlot(StageAt(pc))
       /\ results'.email = results.email
       /\ results'.scan_date = results.scan_date]_vars

\* C21, amended: as above, except that check_social_media, when deep scan
\* is enabled, also writes comments_mentions (through the deep-scan
\* functions its checks call); no stage changes a slot another stage is
\* named after, and email and scan_date never change.
C21_OwnSlotOrDeepDetail ==
    [][/\ Changed \subseteq
            (OwnSlot(StageAt(pc)) \cup
               (IF StageAt(pc) = "check_social_media" /\ deep_scan
                THEN {"comments_mentions"} ELSE {}))
       /\ results'.email = results.email
       /\ results'.scan_date = results.scan_date]_vars

\* a scan has ended in which check_social_media wrote a profile and the
\* deep scan its detail, and analyze_domain wrote its slot
C21_Witness ==
    /\ pc = "done"
    /\ results.findings.social_media # EmptyDict
    /\ results.findings.comments_mentions # EmptyDict
    /\ results.findings.domain_info # EmptyDict

\* the list of items stored for platform p in comments_mentions
StoredItems(cm, p) ==
    CASE p = "Twitter" -> cm[p].sample
      [] p = "GitHub"  -> cm[p].recent_activity
      [] p = "Reddit"  -> cm[p].sample_comments

\* C23: comments_mentions stays empty while deep scan is disabled; when it
\* is enabled, every list of items stored there for a platform has at most
\* 5 elements, and is stored only for a platform recorded in social_media.
C23_DeepDetailBounded ==
    LET cm == results.findings.comments_mentions
    IN  /\ ~deep_scan => cm = EmptyDict
        /\ \A p \in DOMAIN cm :
              /\ Len(StoredItems(cm, p)) <= SampleSize
              /\ p \in DOMAIN results.findings.social_media

\* C24: progress.current never decreases and never exceeds the total of
\* 100, and a scan that has completed without an interrupt has ended with
\* progress.current = 100.
C24_ProgressWithinTotal ==
    /\ [][progress'.current >= progress.current]_vars
    /\ [](/\ progress.current <= ProgressTotal
          /\ (pc = "done" /\ results.status = "completed" /\ ~intr.seen) =>
                 progress.current = ProgressTotal)

\* the number of qualifying links the fetch of query q of engine e gave:
\* none when the fetch failed or the page held none
LinksOn(e, q) ==
    LET hits == {i \in DOMAIN fetchLog : fetchLog[i].engine = e /\ fetchLog[i].query = q}
    IN  IF hits = {} THEN 0 ELSE fetchLog[CHOOSE i \in hits : TRUE].links

\* the concatenation, for the queries q..NumQueries in order, of the first
\* three links of each page of engine e
RECURSIVE Expected(_, _)
Expected(e, q) ==
    IF q > NumQueries THEN <<>>
    ELSE [k \in 1..Min(LinksOn(e, q), LinksPerQuery) |-> <<q, k>>] \o Expected(e, q + 1)

RECURSIVE TotalLinks(_)
TotalLinks(i) ==
    IF i > Len(Engines) THEN 0 ELSE Len(Expected(Engines[i], 1)) + TotalLinks(i + 1)

\* search_public_mentions has been called and is not running any more
MentionsLeft ==
    "mentions" \in stages /\ pc \notin {"mentions", "engine", "query"}

\* C22: when search_public_mentions is over without an interrupt, each
\* engine holds the concatenation, in query order, of at most 3 links per
\* query, a failed fetch giving none and the pages fetched after it giving
\* theirs; an engine without links holds nothing; and the count returned
\* is the number of links stored.
C22_MentionsStored ==
    (MentionsLeft /\ ~intr.seen) =>
        LET pm == results.findings.public_mentions
        IN  /\ \A i \in DOMAIN Engines :
                  IF Expected(Engines[i], 1) = <<>>
                  THEN Engines[i] \notin DOMAIN pm
                  ELSE Engines[i] \in DOMAIN pm /\ pm[Engines[i]] = Expected(Engines[i], 1)
            /\ mentions_count = TotalLinks(1)

====
